---- MODULE Spec2Model ----
(***************************************************************************)
(* Model of the Storage object of src/storage.js: shoes, workouts and the  *)
(* shoe order, each kept under its own localStorage key and rewritten as a *)
(* whole by every mutating operation.                                      *)
(*                                                                         *)
(* Strings that the code inspects (shoe names) are sequences of one-       *)
(* character strings.  Ids are the readings of a logical clock: generateId *)
(* is time based and every call returns a value never returned before.     *)
(* Every value that is stored (strings, booleans, integers, null) survives *)
(* JSON.stringify / JSON.parse unchanged, so an item holds its value.      *)
(***************************************************************************)
EXTENDS Integers, Sequences, FiniteSets, TLC

VARIABLES localStorage, now, explicitOrder, ret

vars == <<localStorage, now, explicitOrder, ret>>

----------------------------------------------------------------------------
(* Bounds *)

MaxIds == 2
MaxOrderLen == 3
MaxMiles == 1
MaxDate == 2

----------------------------------------------------------------------------
(* Storage keys and items *)

KEYS == [SHOES |-> "exercisetrack2_shoes",
         WORKOUTS |-> "exercisetrack2_workouts",
         SHOE_ORDER |-> "exercisetrack2_shoe_order"]

KeySet == {KEYS.SHOES, KEYS.WORKOUTS, KEYS.SHOE_ORDER}

\* localStorage.getItem gives null for a key that was never set or was removed
NullItem == [has |-> FALSE, val |-> <<>>]

Item(v) == [has |-> TRUE, val |-> v]

setItem(ls, key, v) == [ls EXCEPT ![key] = Item(v)]

removeItem(ls, key) == [ls EXCEPT ![key] = NullItem]

----------------------------------------------------------------------------
(* Strings *)

Chars == {"a", "A", "b", " "}

LowerChar(c) == IF c = "A" THEN "a" ELSE c

toLowerCase(s) == [i \in DOMAIN s |-> LowerChar(s[i])]

RECURSIVE trimStart(_)
trimStart(s) == IF s # <<>> /\ Head(s) = " " THEN trimStart(Tail(s)) ELSE s

RECURSIVE trimEnd(_)
trimEnd(s) ==
    IF s # <<>> /\ s[Len(s)] = " " THEN trimEnd(SubSeq(s, 1, Len(s) - 1)) ELSE s

trim(s) == trimEnd(trimStart(s))

----------------------------------------------------------------------------
(* Sequence helpers standing for Array.prototype.filter / some / map *)

RECURSIVE filterOutId(_, _)
filterOutId(seq, id) ==
    IF seq = <<>> THEN <<>>
    ELSE IF Head(seq).id = id THEN filterOutId(Tail(seq), id)
         ELSE <<Head(seq)>> \o filterOutId(Tail(seq), id)

RECURSIVE filterOutValue(_, _)
filterOutValue(seq, v) ==
    IF seq = <<>> THEN <<>>
    ELSE IF Head(seq) = v THEN filterOutValue(Tail(seq), v)
         ELSE <<Head(seq)>> \o filterOutValue(Tail(seq), v)

Range(seq) == {seq[i] : i \in DOMAIN seq}

----------------------------------------------------------------------------
(* Readers and writers of the three collections *)

getShoes(ls) == IF ls[KEYS.SHOES].has THEN ls[KEYS.SHOES].val ELSE <<>>

saveShoes(ls, shoes) == setItem(ls, KEYS.SHOES, shoes)

getWorkouts(ls) == IF ls[KEYS.WORKOUTS].has THEN ls[KEYS.WORKOUTS].val ELSE <<>>

saveWorkouts(ls, workouts) == setItem(ls, KEYS.WORKOUTS, workouts)

\* faulty variant: a stored empty order is taken for no order
getShoeOrder_emptyIsAbsent(ls) ==
    IF ls[KEYS.SHOE_ORDER].has /\ ls[KEYS.SHOE_ORDER].val # <<>>
    THEN ls[KEYS.SHOE_ORDER].val
    ELSE [i \in DOMAIN getShoes(ls) |-> getShoes(ls)[i].id]

getShoeOrder(ls) ==
    IF ls[KEYS.SHOE_ORDER].has THEN ls[KEYS.SHOE_ORDER].val
    ELSE [i \in DOMAIN getShoes(ls) |-> getShoes(ls)[i].id]

saveShoeOrder(ls, order) == setItem(ls, KEYS.SHOE_ORDER, order)

ShoeIds(ls) == {getShoes(ls)[i].id : i \in DOMAIN getShoes(ls)}

WorkoutIds(ls) == {getWorkouts(ls)[i].id : i \in DOMAIN getWorkouts(ls)}

----------------------------------------------------------------------------
(* Input domains *)

RECURSIVE SeqsUpTo(_, _)
SeqsUpTo(S, n) ==
    IF n = 0 THEN {<<>>}
    ELSE SeqsUpTo(S, n - 1) \cup
         {Append(q, x) : q \in {r \in SeqsUpTo(S, n - 1) : Len(r) = n - 1}, x \in S}

\* names a caller may pass to addShoe
NameArgs == {<<"a">>, <<"A">>, <<" ", "a">>, <<"b">>}

\* imageData is null or a base64 string
ImageArgs == {"null", "data:image"}

\* the ids a caller can know: those generated so far, and 0, an id that
\* generateId never returned
IdArgs == 0..(now - 1)

\* miles as the caller passes it: a number, or the decimal string of a number
MilesArgs == [kind : {"number", "string"}, val : 0..MaxMiles]

DateArgs == 1..MaxDate

\* parseFloat of a number or of its decimal string is that number
parseFloat(m) == m.val

\* w.miles === miles: a stored number is strictly equal only to a number
StrictEqMiles(stored, m) == m.kind = "number" /\ m.val = stored

----------------------------------------------------------------------------
(* Results of the last call, as the caller sees them *)

\* op: the operation; id: the id of the record an add returns, else 0;
\* res: "ok"/"threw" of addShoe, "true"/"false" of deleteShoe,
\* "dup"/"nodup" of addWorkout
Ret(op, id, res) == [op |-> op, id |-> id, res |-> res]

----------------------------------------------------------------------------
(* Shoes *)

getShoeById(ls, id) ==
    {getShoes(ls)[i] : i \in {j \in DOMAIN getShoes(ls) : getShoes(ls)[j].id = id}}

\* faulty variant: the names are compared without toLowerCase
hasDuplicateName_caseSensitive(shoes, name) ==
    \E i \in DOMAIN shoes : shoes[i].name = name

\* shoes.some(shoe => shoe.name.toLowerCase() === name.toLowerCase())
hasDuplicateName(shoes, name) ==
    \E i \in DOMAIN shoes : toLowerCase(shoes[i].name) = toLowerCase(name)

\* faulty variant: the name is stored as passed
newShoe_untrimmed(id, name, imageData, t) ==
    [id |-> id, name |-> name, retired |-> FALSE,
     imageData |-> imageData, createdAt |-> t]

newShoe(id, name, imageData, t) ==
    [id |-> id, name |-> trim(name), retired |-> FALSE,
     imageData |-> imageData, createdAt |-> t]

\* the two writes of a successful addShoe: the shoes, then the order read
\* back after the shoes were saved
addShoeStore(ls, shoe) ==
    LET ls1 == saveShoes(ls, Append(getShoes(ls), shoe))
    IN  saveShoeOrder(ls1, Append(getShoeOrder(ls1), shoe.id))

addShoe(name, imageData) ==
    /\ now <= MaxIds
    /\ IF hasDuplicateName(getShoes(localStorage), name)
       THEN /\ ret' = Ret("addShoe", 0, "threw")
            /\ UNCHANGED <<localStorage, now, explicitOrder>>
       ELSE /\ localStorage' = addShoeStore(localStorage, newShoe(now, name, imageData, now))
            /\ now' = now + 1
            /\ ret' = Ret("addShoe", now, "ok")
            /\ UNCHANGED explicitOrder

\* faulty variant: shoe.retired = !shoe.retired
retireShoeStore_toggles(ls, id) ==
    IF \E i \in DOMAIN getShoes(ls) : getShoes(ls)[i].id = id
    THEN LET i == CHOOSE j \in DOMAIN getShoes(ls) :
                     /\ getShoes(ls)[j].id = id
                     /\ \A k \in 1..(j - 1) : getShoes(ls)[k].id # id
         IN  saveShoes(ls, [getShoes(ls) EXCEPT ![i].retired = ~getShoes(ls)[i].retired])
    ELSE ls

\* faulty variant: the retired shoe is rebuilt without its image
retireShoeStore_dropsImage(ls, id) ==
    IF \E i \in DOMAIN getShoes(ls) : getShoes(ls)[i].id = id
    THEN LET i == CHOOSE j \in DOMAIN getShoes(ls) :
                     /\ getShoes(ls)[j].id = id
                     /\ \A k \in 1..(j - 1) : getShoes(ls)[k].id # id
         IN  saveShoes(ls, [getShoes(ls) EXCEPT ![i].retired = TRUE,
                                                ![i].imageData = "null"])
    ELSE ls

retireShoeStore(ls, id) ==
    IF \E i \in DOMAIN getShoes(ls) : getShoes(ls)[i].id = id
    THEN LET i == CHOOSE j \in DOMAIN getShoes(ls) :
                     /\ getShoes(ls)[j].id = id
                     /\ \A k \in 1..(j - 1) : getShoes(ls)[k].id # id
         IN  saveShoes(ls, [getShoes(ls) EXCEPT ![i].retired = TRUE])
    ELSE ls

retireShoe(id) ==
    /\ localStorage' = retireShoeStore(localStorage, id)
    /\ ret' = Ret("retireShoe", 0, "none")
    /\ UNCHANGED <<now, explicitOrder>>

\* faulty variant: the workouts are matched on w.id instead of w.shoeId
hasWorkouts_byWorkoutId(workouts, id) == \E i \in DOMAIN workouts : workouts[i].id = id

hasWorkouts(workouts, id) == \E i \in DOMAIN workouts : workouts[i].shoeId = id

deleteShoeStore(ls, id) ==
    LET ls1 == saveShoes(ls, filterOutId(getShoes(ls), id))
    IN  saveShoeOrder(ls1, filterOutValue(getShoeOrder(ls1), id))

deleteShoe(id) ==
    /\ IF hasWorkouts(getWorkouts(localStorage), id)
       THEN /\ ret' = Ret("deleteShoe", 0, "false")
            /\ UNCHANGED localStorage
       ELSE /\ localStorage' = deleteShoeStore(localStorage, id)
            /\ ret' = Ret("deleteShoe", 0, "true")
    /\ UNCHANGED <<now, explicitOrder>>

\* saveShoeOrder called by the page that reorders the shoes
setOrder(order) ==
    /\ localStorage' = saveShoeOrder(localStorage, order)
    /\ explicitOrder' = TRUE
    /\ ret' = Ret("setOrder", 0, "none")
    /\ UNCHANGED now

\* the ids of the shoes in the order their keys enter shoeMap
RECURSIVE keyOrder(_)
keyOrder(shoes) ==
    IF shoes = <<>> THEN <<>>
    ELSE LET rest == keyOrder(SubSeq(shoes, 1, Len(shoes) - 1))
             id == shoes[Len(shoes)].id
         IN  IF id \in Range(rest) THEN rest ELSE Append(rest, id)

\* shoeMap[shoe.id] = shoe for each shoe in turn: the last shoe of an id wins
shoeMap(shoes) ==
    [id \in {shoes[i].id : i \in DOMAIN shoes} |->
        shoes[CHOOSE i \in DOMAIN shoes :
                 /\ shoes[i].id = id
                 /\ \A k \in (i + 1)..Len(shoes) : shoes[k].id # id]]

\* faulty variant: the key is not deleted from shoeMap after the push
RECURSIVE orderedPart_keepsKey(_, _, _)
orderedPart_keepsKey(order, map, keys) ==
    IF order = <<>> THEN <<>>
    ELSE IF Head(order) \in keys
         THEN <<map[Head(order)]>> \o orderedPart_keepsKey(Tail(order), map, keys)
         ELSE orderedPart_keepsKey(Tail(order), map, keys)

\* order.forEach: push the shoe of an id still in the map and delete its key
RECURSIVE orderedPart(_, _, _)
orderedPart(order, map, keys) ==
    IF order = <<>> THEN <<>>
    ELSE IF Head(order) \in keys
         THEN <<map[Head(order)]>> \o orderedPart(Tail(order), map, keys \ {Head(order)})
         ELSE orderedPart(Tail(order), map, keys)

\* Object.values(shoeMap): the keys left, in insertion order (a generated id
\* is never an array index, so no key is moved to the front)
RECURSIVE remainingPart(_, _, _)
remainingPart(keySeq, map, used) ==
    IF keySeq = <<>> THEN <<>>
    ELSE IF Head(keySeq) \in used THEN remainingPart(Tail(keySeq), map, used)
         ELSE <<map[Head(keySeq)]>> \o remainingPart(Tail(keySeq), map, used)

getShoesOrdered(ls) ==
    LET shoes == getShoes(ls)
        order == getShoeOrder(ls)
        map == shoeMap(shoes)
    IN  orderedPart(order, map, DOMAIN map) \o
        remainingPart(keyOrder(shoes), map, Range(order))

----------------------------------------------------------------------------
(* Workouts *)

NoTime == 0

getWorkoutById(ls, id) ==
    {getWorkouts(ls)[i] : i \in {j \in DOMAIN getWorkouts(ls) : getWorkouts(ls)[j].id = id}}

isDuplicate(workouts, shoeId, miles, date) ==
    \E i \in DOMAIN workouts :
        /\ workouts[i].shoeId = shoeId
        /\ workouts[i].date = date
        /\ StrictEqMiles(workouts[i].miles, miles)

newWorkout(id, shoeId, miles, date, t) ==
    [id |-> id, shoeId |-> shoeId, miles |-> parseFloat(miles), date |-> date,
     createdAt |-> t, updatedAt |-> NoTime]

\* faulty variant: a workout flagged as a duplicate is not stored
addWorkoutStore_skipsDuplicate(ls, workout) ==
    IF \E i \in DOMAIN getWorkouts(ls) :
           /\ getWorkouts(ls)[i].shoeId = workout.shoeId
           /\ getWorkouts(ls)[i].date = workout.date
           /\ getWorkouts(ls)[i].miles = workout.miles
    THEN ls
    ELSE saveWorkouts(ls, Append(getWorkouts(ls), workout))

addWorkoutStore(ls, workout) == saveWorkouts(ls, Append(getWorkouts(ls), workout))

addWorkout(shoeId, miles, date) ==
    /\ now <= MaxIds
    /\ localStorage' =
           addWorkoutStore(localStorage, newWorkout(now, shoeId, miles, date, now))
    /\ now' = now + 1
    /\ ret' = Ret("addWorkout", now, IF isDuplicate(getWorkouts(localStorage), shoeId, miles, date)
                  THEN "dup" ELSE "nodup")
    /\ UNCHANGED explicitOrder

\* faulty variant: the shoe of the workout is not overwritten
updateWorkoutStore_keepsShoe(ls, id, shoeId, miles, date, t) ==
    IF \E i \in DOMAIN getWorkouts(ls) : getWorkouts(ls)[i].id = id
    THEN LET i == CHOOSE j \in DOMAIN getWorkouts(ls) :
                     /\ getWorkouts(ls)[j].id = id
                     /\ \A k \in 1..(j - 1) : getWorkouts(ls)[k].id # id
         IN  saveWorkouts(ls, [getWorkouts(ls) EXCEPT
                                  ![i].miles = parseFloat(miles),
                                  ![i].date = date,
                                  ![i].updatedAt = t])
    ELSE ls

updateWorkoutStore(ls, id, shoeId, miles, date, t) ==
    IF \E i \in DOMAIN getWorkouts(ls) : getWorkouts(ls)[i].id = id
    THEN LET i == CHOOSE j \in DOMAIN getWorkouts(ls) :
                     /\ getWorkouts(ls)[j].id = id
                     /\ \A k \in 1..(j - 1) : getWorkouts(ls)[k].id # id
         IN  saveWorkouts(ls, [getWorkouts(ls) EXCEPT
                                  ![i].shoeId = shoeId,
                                  ![i].miles = parseFloat(miles),
                                  ![i].date = date,
                                  ![i].updatedAt = t])
    ELSE ls

updateWorkout(id, shoeId, miles, date) ==
    /\ localStorage' = updateWorkoutStore(localStorage, id, shoeId, miles, date, now)
    /\ ret' = Ret("updateWorkout", 0, "none")
    /\ UNCHANGED <<now, explicitOrder>>

\* faulty variant: splice(findIndex(...), 1), which drops the last workout
\* when no workout has the id
deleteWorkoutStore_splice(ls, id) ==
    IF \E i \in DOMAIN getWorkouts(ls) : getWorkouts(ls)[i].id = id
    THEN saveWorkouts(ls, filterOutId(getWorkouts(ls), id))
    ELSE saveWorkouts(ls, SubSeq(getWorkouts(ls), 1, Len(getWorkouts(ls)) - 1))

deleteWorkoutStore(ls, id) == saveWorkouts(ls, filterOutId(getWorkouts(ls), id))

deleteWorkout(id) ==
    /\ localStorage' = deleteWorkoutStore(localStorage, id)
    /\ ret' = Ret("deleteWorkout", 0, "none")
    /\ UNCHANGED <<now, explicitOrder>>

\* faulty variant: the workouts are not filtered by shoe
getWorkoutsByShoe_all(ls, shoeId) == getWorkouts(ls)

getWorkoutsByShoe(ls, shoeId) ==
    SelectSeq(getWorkouts(ls), LAMBDA w : w.shoeId = shoeId)

RECURSIVE sumMiles(_)
sumMiles(workouts) ==
    IF workouts = <<>> THEN 0
    ELSE sumMiles(SubSeq(workouts, 1, Len(workouts) - 1)) + workouts[Len(workouts)].miles

getTotalMiles(ls, shoeId) == sumMiles(getWorkoutsByShoe(ls, shoeId))

----------------------------------------------------------------------------
(* Reset *)

\* faulty variant: the shoe order key is not removed
clearAll_keepsOrder ==
    /\ localStorage' = removeItem(removeItem(localStorage, KEYS.SHOES), KEYS.WORKOUTS)
    /\ explicitOrder' = FALSE
    /\ ret' = Ret("clearAll", 0, "none")
    /\ UNCHANGED now

clearAll ==
    /\ localStorage' =
           removeItem(removeItem(removeItem(localStorage, KEYS.SHOES), KEYS.WORKOUTS),
                      KEYS.SHOE_ORDER)
    /\ explicitOrder' = FALSE
    /\ ret' = Ret("clearAll", 0, "none")
    /\ UNCHANGED now

----------------------------------------------------------------------------
(* The store: every key absent, then any sequence of calls *)

Init ==
    /\ localStorage = [k \in KeySet |-> NullItem]
    /\ now = 1
    /\ explicitOrder = FALSE
    /\ ret = Ret("init", 0, "none")

\* any call of the store, with arguments drawn from the given domains
NextOver(Names, Images, Miles, Dates, orderLen) ==
    \/ \E name \in Names, imageData \in Images : addShoe(name, imageData)
    \/ \E id \in IdArgs : retireShoe(id)
    \/ \E id \in IdArgs : deleteShoe(id)
    \/ \E order \in SeqsUpTo(IdArgs, orderLen) : setOrder(order)
    \/ \E shoeId \in IdArgs, miles \in Miles, date \in Dates :
           addWorkout(shoeId, miles, date)
    \/ \E id \in IdArgs, shoeId \in IdArgs, miles \in Miles, date \in Dates :
           updateWorkout(id, shoeId, miles, date)
    \/ \E id \in IdArgs : deleteWorkout(id)
    \/ clearAll

\* the one miles argument and the one date of the specification in which the
\* shoes vary
FixedMiles == {[kind |-> "number", val |-> 1]}

FixedDates == {1}

\* every operation; the shoe names, images and orders vary
Next == NextOver(NameArgs, ImageArgs, FixedMiles, FixedDates, MaxOrderLen)

Spec == Init /\ [][Next]_vars

\* every operation; the miles and dates of the workouts vary
NextWorkouts == NextOver({<<"a">>, <<"b">>}, {"null"}, MilesArgs, DateArgs, 1)

SpecWorkouts == Init /\ [][NextWorkouts]_vars

\* any number as miles, negative ones included
SignedMilesArgs == [kind : {"number", "string"}, val : (-1)..MaxMiles]

\* every operation; the miles are any number
NextSignedMiles == NextOver({<<"a">>, <<"b">>}, {"null"}, SignedMilesArgs, FixedDates, 1)

SpecSignedMiles == Init /\ [][NextSignedMiles]_vars

----------------------------------------------------------------------------
(* Malformed items: a key whose string JSON.parse cannot read *)

MalformedItem == [has |-> TRUE, val |-> <<>>, malformed |-> TRUE]

\* JSON.parse(data) throws a SyntaxError
isMalformed(item) == "malformed" \in DOMAIN item

\* something other than the store leaves an unreadable string under a key
corrupt(key) ==
    /\ localStorage' = [localStorage EXCEPT ![key] = MalformedItem]
    /\ ret' = Ret("corrupt", 0, "none")
    /\ UNCHANGED <<now, explicitOrder>>

\* the SyntaxError of JSON.parse leaves the operation before any write
throwsSyntaxError(op) ==
    /\ ret' = Ret(op, 0, "SyntaxError")
    /\ UNCHANGED <<localStorage, now, explicitOrder>>

\* addShoe: getShoes parses first; getShoeOrder parses after the shoes were
\* saved
addShoeParsing(name, imageData) ==
    IF isMalformed(localStorage[KEYS.SHOES]) THEN throwsSyntaxError("addShoe")
    ELSE IF \/ hasDuplicateName(getShoes(localStorage), name)
            \/ ~isMalformed(localStorage[KEYS.SHOE_ORDER])
         THEN addShoe(name, imageData)
         ELSE /\ now <= MaxIds
              /\ localStorage' =
                     saveShoes(localStorage,
                               Append(getShoes(localStorage),
                                      newShoe(now, name, imageData, now)))
              /\ now' = now + 1
              /\ ret' = Ret("addShoe", 0, "SyntaxError")
              /\ UNCHANGED explicitOrder

retireShoeParsing(id) ==
    IF isMalformed(localStorage[KEYS.SHOES]) THEN throwsSyntaxError("retireShoe")
    ELSE retireShoe(id)

\* deleteShoe: getWorkouts, then getShoes, then getShoeOrder after the shoes
\* were saved
deleteShoeParsing(id) ==
    IF isMalformed(localStorage[KEYS.WORKOUTS]) THEN throwsSyntaxError("deleteShoe")
    ELSE IF hasWorkouts(getWorkouts(localStorage), id) THEN deleteShoe(id)
    ELSE IF isMalformed(localStorage[KEYS.SHOES]) THEN throwsSyntaxError("deleteShoe")
    ELSE IF ~isMalformed(localStorage[KEYS.SHOE_ORDER]) THEN deleteShoe(id)
    ELSE /\ localStorage' = saveShoes(localStorage, filterOutId(getShoes(localStorage), id))
         /\ ret' = Ret("deleteShoe", 0, "SyntaxError")
         /\ UNCHANGED <<now, explicitOrder>>

addWorkoutParsing(shoeId, miles, date) ==
    IF isMalformed(localStorage[KEYS.WORKOUTS]) THEN throwsSyntaxError("addWorkout")
    ELSE addWorkout(shoeId, miles, date)

updateWorkoutParsing(id, shoeId, miles, date) ==
    IF isMalformed(localStorage[KEYS.WORKOUTS]) THEN throwsSyntaxError("updateWorkout")
    ELSE updateWorkout(id, shoeId, miles, date)

deleteWorkoutParsing(id) ==
    IF isMalformed(localStorage[KEYS.WORKOUTS]) THEN throwsSyntaxError("deleteWorkout")
    ELSE deleteWorkout(id)

\* every operation over a store whose keys may hold malformed data
NextMalformed ==
    \/ \E key \in KeySet : corrupt(key)
    \/ \E name \in {<<"a">>, <<"b">>} : addShoeParsing(name, "null")
    \/ \E id \in IdArgs : retireShoeParsing(id)
    \/ \E id \in IdArgs : deleteShoeParsing(id)
    \/ \E order \in SeqsUpTo(IdArgs, 1) : setOrder(order)
    \/ \E shoeId \in IdArgs, miles \in FixedMiles, date \in FixedDates :
           addWorkoutParsing(shoeId, miles, date)
    \/ \E id \in IdArgs, shoeId \in IdArgs, miles \in FixedMiles, date \in FixedDates :
           updateWorkoutParsing(id, shoeId, miles, date)
    \/ \E id \in IdArgs : deleteWorkoutParsing(id)
    \/ clearAll

SpecMalformed == Init /\ [][NextMalformed]_vars

----------------------------------------------------------------------------
(* Properties *)

shoes == getShoes(localStorage)

workouts == getWorkouts(localStorage)

order == getShoeOrder(localStorage)

\* two names are equal ignoring case: same length, and at every position the
\* same letter in either case
EqualIgnoringCase(s, t) ==
    /\ Len(s) = Len(t)
    /\ \A i \in DOMAIN s : s[i] = t[i] \/ {s[i], t[i]} = {"a", "A"}

\* the number of positions of seq that hold v
Occurrences(seq, v) == Cardinality({i \in DOMAIN seq : seq[i] = v})

\* C1: no two stored shoes, retired or not, have names that are equal
\* ignoring case.
C1_UniqueNamesIgnoringCase ==
    \A i, j \in DOMAIN shoes :
        i # j => ~EqualIgnoringCase(shoes[i].name, shoes[j].name)

\* C2: an addShoe whose name equals, ignoring case, the name of an existing
\* shoe throws, and an addShoe that throws leaves the three collections as
\* they were.
C2_DuplicateNameThrows ==
    [][\A name \in NameArgs, imageData \in ImageArgs :
          addShoe(name, imageData) =>
              /\ (\E i \in DOMAIN shoes : EqualIgnoringCase(shoes[i].name, name))
                     => ret'.res = "threw"
              /\ ret'.res = "threw" => localStorage' = localStorage]_vars

C2_Witness ==
    /\ ret.op = "addShoe"
    /\ ret.res = "threw"
    /\ shoes # <<>>

\* C3: deleteShoe(id) returns false and writes nothing exactly when a stored
\* workout has shoeId = id; otherwise it returns true and afterwards no shoe
\* has that id and the order does not contain it.
C3_DeleteShoeGuard ==
    [][\A id \in IdArgs :
          deleteShoe(id) =>
              IF \E i \in DOMAIN workouts : workouts[i].shoeId = id
              THEN /\ ret'.res = "false"
                   /\ localStorage' = localStorage
              ELSE /\ ret'.res = "true"
                   /\ id \notin ShoeIds(localStorage')
                   /\ id \notin Range(getShoeOrder(localStorage'))]_vars

C3_Witness ==
    /\ ret.op = "deleteShoe"
    /\ ret.res = "false"
    /\ \E i \in DOMAIN workouts : workouts[i].shoeId \in ShoeIds(localStorage)

\* C4: every stored workout's shoeId is the id of a shoe that exists.
C4_WorkoutsReferenceShoes ==
    \A i \in DOMAIN workouts : workouts[i].shoeId \in ShoeIds(localStorage)

\* C5: as long as setOrder was not called since the store was empty,
\* getOrder() holds every current shoe id exactly once and no other id.
C5_OrderIsPermutation ==
    ~explicitOrder =>
        /\ Range(order) = ShoeIds(localStorage)
        /\ \A id \in Range(order) : Occurrences(order, id) = 1

\* the position of the first occurrence of id in seq
FirstIndex(seq, id) == CHOOSE i \in DOMAIN seq : seq[i] = id /\ \A k \in 1..(i - 1) : seq[k] # id

\* C6: listShoesOrdered() holds every current shoe exactly once and nothing
\* else; the shoes whose id is in the stored order come first, in the order
\* of the first occurrence of their ids, and the other shoes follow.
C6_OrderedIsSelfHealing ==
    LET r == getShoesOrdered(localStorage)
    IN  /\ Len(r) = Len(shoes)
        /\ \A i \in DOMAIN shoes : Occurrences(r, shoes[i]) = 1
        /\ \A p, q \in DOMAIN r :
               p < q =>
                   /\ r[q].id \in Range(order) => r[p].id \in Range(order)
                   /\ (r[p].id \in Range(order) /\ r[q].id \in Range(order))
                          => FirstIndex(order, r[p].id) < FirstIndex(order, r[q].id)

\* a stored order with a stale id, a repeated id and a missing id
C6_Witness ==
    /\ explicitOrder
    /\ \E id \in Range(order) : id \notin ShoeIds(localStorage)
    /\ \E id \in Range(order) : id \in ShoeIds(localStorage) /\ Occurrences(order, id) = 2
    /\ \E id \in ShoeIds(localStorage) : id \notin Range(order)

\* C7: addWorkout returns isDuplicate = true exactly when a workout stored
\* before the call has the same shoeId, the same date and the miles the
\* argument is coerced to.
C7_DuplicateFlag ==
    [][\A shoeId \in IdArgs, miles \in MilesArgs, date \in DateArgs :
          addWorkout(shoeId, miles, date) =>
              (ret'.res = "dup" <=>
                   \E i \in DOMAIN workouts :
                       /\ workouts[i].shoeId = shoeId
                       /\ workouts[i].date = date
                       /\ workouts[i].miles = miles.val)]_vars

\* C8: every addWorkout, flagged or not, appends one record with an id no
\* stored workout has and leaves the stored workouts as they were.
C8_AddWorkoutAppendsOne ==
    [][\A shoeId \in IdArgs, miles \in MilesArgs, date \in DateArgs :
          addWorkout(shoeId, miles, date) =>
              LET after == getWorkouts(localStorage')
              IN  /\ Len(after) = Len(workouts) + 1
                  /\ SubSeq(after, 1, Len(workouts)) = workouts
                  /\ after[Len(after)].id \notin WorkoutIds(localStorage)
                  /\ after[Len(after)].id = ret'.id]_vars

C8_Witness ==
    /\ ret.op = "addWorkout"
    /\ ret.res = "dup"
    /\ Len(workouts) = 2

\* C9: a shoe that is retired is retired in the next state if it still
\* exists there, whatever the operation.
C9_RetirementMonotonic ==
    [][\A i \in DOMAIN shoes :
          shoes[i].retired =>
              \A j \in DOMAIN getShoes(localStorage') :
                  getShoes(localStorage')[j].id = shoes[i].id
                      => getShoes(localStorage')[j].retired]_vars

\* a retired shoe that went through a later operation
C9_Witness ==
    /\ ret.op \notin {"retireShoe", "init"}
    /\ \E i \in DOMAIN shoes : shoes[i].retired

\* C10: in every reachable state and for every id, retireShoe(id) applied
\* twice leaves the store that retireShoe(id) applied once leaves.
C10_RetireIdempotent ==
    \A id \in IdArgs :
        retireShoeStore(retireShoeStore(localStorage, id), id)
            = retireShoeStore(localStorage, id)

C10_Witness ==
    /\ ret.op = "retireShoe"
    /\ \E i \in DOMAIN shoes : shoes[i].retired
    /\ \E i \in DOMAIN shoes : ~shoes[i].retired

\* the sum of the miles of the workouts at the positions in idx
RECURSIVE MilesAt(_, _)
MilesAt(ws, idx) ==
    IF idx = {} THEN 0
    ELSE LET i == CHOOSE k \in idx : TRUE
         IN  ws[i].miles + MilesAt(ws, idx \ {i})

\* the workout records that a step adds, removes or rewrites
ChangedWorkouts ==
    (Range(workouts) \ Range(getWorkouts(localStorage'))) \cup
    (Range(getWorkouts(localStorage')) \ Range(workouts))

\* C11: totalMiles(shoeId) is the sum of the miles of exactly the stored
\* workouts with that shoeId (0 when there are none), and a step that adds,
\* edits or deletes only workouts of other shoes leaves it unchanged.
C11_TotalMiles ==
    [][/\ \A shoeId \in 0..MaxIds :
              getTotalMiles(localStorage', shoeId) =
                  MilesAt(getWorkouts(localStorage'),
                          {i \in DOMAIN getWorkouts(localStorage') :
                               getWorkouts(localStorage')[i].shoeId = shoeId})
       /\ \A shoeId \in 0..MaxIds :
              (\A w \in ChangedWorkouts : w.shoeId # shoeId)
                  => getTotalMiles(localStorage', shoeId) =
                         getTotalMiles(localStorage, shoeId)]_vars

\* a workout was added for one shoe while another shoe has miles
C11_Witness ==
    /\ ret.op = "addWorkout"
    /\ Len(workouts) = 2
    /\ workouts[1].shoeId # workouts[2].shoeId
    /\ workouts[1].miles > 0
    /\ getTotalMiles(localStorage, workouts[1].shoeId) = workouts[1].miles

\* what the list operations return is the same after the step as before
ListsUnchanged ==
    /\ getShoes(localStorage') = getShoes(localStorage)
    /\ getWorkouts(localStorage') = getWorkouts(localStorage)
    /\ getShoeOrder(localStorage') = getShoeOrder(localStorage)
    /\ getShoesOrdered(localStorage') = getShoesOrdered(localStorage)

\* C12: updateWorkout, deleteWorkout and retireShoe called with an id of no
\* stored entity do not throw and leave what the list operations return
\* unchanged.
C12_NotFoundIsNoOp ==
    [][/\ ret'.op = "retireShoe" =>
              \A id \in IdArgs \ ShoeIds(localStorage) :
                  retireShoe(id) => ret'.res # "threw" /\ ListsUnchanged
       /\ ret'.op = "deleteWorkout" =>
              \A id \in IdArgs \ WorkoutIds(localStorage) :
                  deleteWorkout(id) => ret'.res # "threw" /\ ListsUnchanged
       /\ ret'.op = "updateWorkout" =>
              \A id \in IdArgs \ WorkoutIds(localStorage), shoeId \in IdArgs,
                 miles \in FixedMiles, date \in FixedDates :
                  updateWorkout(id, shoeId, miles, date)
                      => ret'.res # "threw" /\ ListsUnchanged]_vars

\* an updateWorkout that found no workout: no stored workout was ever edited
C12_Witness ==
    /\ ret.op = "updateWorkout"
    /\ workouts # <<>>
    /\ shoes # <<>>
    /\ \A i \in DOMAIN workouts : workouts[i].updatedAt = NoTime

\* C13: after clearAll, listShoes(), listShoesOrdered(), listWorkouts() and
\* getOrder() all return the empty sequence.
C13_ClearAllEmpties ==
    ret.op = "clearAll" =>
        /\ getShoes(localStorage) = <<>>
        /\ getShoesOrdered(localStorage) = <<>>
        /\ getWorkouts(localStorage) = <<>>
        /\ getShoeOrder(localStorage) = <<>>

\* clearAll after records were created
C13_Witness ==
    /\ ret.op = "clearAll"
    /\ now > 2

\* C14: an operation that reads a key holding malformed data takes it for
\* the empty collection and completes; no operation ends with the
\* SyntaxError of JSON.parse.
C14_MalformedReadsAsEmpty == ret.res # "SyntaxError"

\* t is s without its leading and trailing spaces: a stretch of s that neither
\* starts nor ends with a space, with only spaces before and after it
IsTrimmed(t, s) ==
    \E i \in 1..(Len(s) + 1), j \in 0..Len(s) :
        /\ t = SubSeq(s, i, j)
        /\ \A k \in DOMAIN s : (k < i \/ k > j) => s[k] = " "
        /\ t # <<>> => t[1] # " " /\ t[Len(t)] # " "

\* C15: after a successful addShoe(name), getShoe(result.id) returns one
\* shoe, named name without its leading and trailing whitespace and not
\* retired.
C15_AddShoeThenGetShoe ==
    [][ret'.op = "addShoe" /\ ret'.res = "ok" =>
           \A name \in NameArgs, imageData \in ImageArgs :
               addShoe(name, imageData) =>
                   /\ Cardinality(getShoeById(localStorage', ret'.id)) = 1
                   /\ \A shoe \in getShoeById(localStorage', ret'.id) :
                          /\ shoe.id = ret'.id
                          /\ IsTrimmed(shoe.name, name)
                          /\ shoe.retired = FALSE]_vars

\* two stored shoes named "a": one of them was added with whitespace around
\* its name
C15_Witness ==
    /\ ret.op = "addShoe"
    /\ ret.res = "ok"
    /\ Len(shoes) = 2
    /\ shoes[1].name = <<"a">>
    /\ shoes[2].name = <<"a">>

\* C16: every stored workout has miles >= 0.
C16_MilesNonNegative == \A i \in DOMAIN workouts : workouts[i].miles >= 0

\* C17: a shoe that exists before and after a step keeps its id, name,
\* createdAt and imageData, its retired flag changes only in a retireShoe
\* step, and addWorkout, updateWorkout and deleteWorkout change neither the
\* shoes nor the stored order.
C17_ShoeMutatedOnlyByRetirement ==
    [][/\ \A i \in DOMAIN shoes : \A j \in DOMAIN getShoes(localStorage') :
              getShoes(localStorage')[j].id = shoes[i].id =>
                  /\ getShoes(localStorage')[j].name = shoes[i].name
                  /\ getShoes(localStorage')[j].createdAt = shoes[i].createdAt
                  /\ getShoes(localStorage')[j].imageData = shoes[i].imageData
                  /\ getShoes(localStorage')[j].retired # shoes[i].retired
                         => ret'.op = "retireShoe"
       /\ ret'.op \in {"addWorkout", "updateWorkout", "deleteWorkout"} =>
              /\ localStorage'[KEYS.SHOES] = localStorage[KEYS.SHOES]
              /\ localStorage'[KEYS.SHOE_ORDER] = localStorage[KEYS.SHOE_ORDER]]_vars

\* a shoe with an image went through a retirement
C17_Witness ==
    /\ ret.op = "retireShoe"
    /\ \E i \in DOMAIN shoes : shoes[i].retired /\ shoes[i].imageData = "data:image"

\* C18: after a successful addShoe, getOrder() is getOrder() before the call
\* followed by the new id, once.
C18_AddShoeAppendsIdOnce ==
    [][ret'.op = "addShoe" /\ ret'.res = "ok" =>
           getShoeOrder(localStorage') = Append(getShoeOrder(localStorage), ret'.id)]_vars

\* C19: in every reachable state, updateWorkout(id, shoeId, miles, date) on
\* a stored workout gives it the shoeId, miles and date passed and an
\* updatedAt, keeps its id and createdAt, and leaves the other workouts and
\* their number unchanged.
C19_UpdateWorkoutOverwrites ==
    \A id \in WorkoutIds(localStorage), shoeId \in IdArgs,
       miles \in MilesArgs, date \in DateArgs :
        LET after == getWorkouts(updateWorkoutStore(localStorage, id, shoeId,
                                                    miles, date, now))
        IN  /\ Len(after) = Len(workouts)
            /\ \A i \in DOMAIN workouts :
                   IF workouts[i].id = id
                   THEN /\ after[i].id = id
                        /\ after[i].createdAt = workouts[i].createdAt
                        /\ after[i].shoeId = shoeId
                        /\ after[i].miles = miles.val
                        /\ after[i].date = date
                        /\ after[i].updatedAt = now
                        /\ after[i].updatedAt # NoTime
                   ELSE after[i] = workouts[i]

\* one of two workouts was edited, the other never
C19_Witness ==
    /\ ret.op = "updateWorkout"
    /\ Len(workouts) = 2
    /\ \E i \in DOMAIN workouts : workouts[i].updatedAt # NoTime
    /\ \E i \in DOMAIN workouts : workouts[i].updatedAt = NoTime

\* C20: in every reachable state and for every sequence s of ids, the empty
\* one and those that are no permutation of the shoe ids included,
\* getOrder() right after setOrder(s) returns s.
C20_SetOrderThenGetOrder ==
    \A s \in SeqsUpTo(IdArgs, MaxOrderLen) :
        getShoeOrder(saveShoeOrder(localStorage, s)) = s

\* the empty order was stored while shoes exist
C20_Witness ==
    /\ ret.op = "setOrder"
    /\ localStorage[KEYS.SHOE_ORDER] = Item(<<>>)
    /\ shoes # <<>>

====
